---- MODULE Spec2Model ----
(***************************************************************************)
(* vkmemfd: a controller process (src/main.c) owns a memfd heap and an X   *)
(* window; a renderer process (src/renderer.c) imports regions of the same *)
(* heap into Vulkan.  The two talk over two pipes carrying uint32_t        *)
(* values: a three-value layout handshake, then request/reply pairs.       *)
(*                                                                         *)
(* Byte quantities are scaled: the channel word is ChanBits wide instead   *)
(* of 32, VkDeviceSize is 2*ChanBits wide instead of 64, the heap is twice *)
(* the channel range (8 GiB = 2 * 2^32 in the source), the page is         *)
(* PageSize bytes and the image is Width x Height pixels.  The fields of   *)
(* app.config that the functions read as parameters (output_count,         *)
(* use_udmabuf) are drawn in Init.  Pointers into a mapping are modelled   *)
(* as byte offsets from the start of the heap.                             *)
(***************************************************************************)
EXTENDS Integers, Sequences, FiniteSets, TLC

(* ------------------------------ bounds -------------------------------- *)

\* output_count ranges over 1..MaxOutputCount
MaxOutputCount == 3
\* width of a channel word in bits (uint32_t in the source)
ChanBits == 6
\* getpagesize(), also the granularity of mmap addresses
PageSize == 4
\* app.config.width and app.config.height, in pixels
Width == 3
Height == 1
\* the renderer's mapping starts at one of the first MaxBasePages pages
MaxBasePages == 2
\* a pipe holds at most PipeCap unread words; a write to a full pipe blocks
PipeCap == 2
\* the largest descriptor a process may have open
MaxFd == 9
\* a device has at most MaxMemTypes memory types: bits 0..MaxMemTypes-1 of
\* a memoryTypeBits word
MaxMemTypes == 3

(* --------------------------- program constants ------------------------ *)

\* sizeof(float[4])
Vec4Size == 16
\* bytes per B8G8R8A8 pixel
PixelSize == 4

\* bytes per cache line (64 in the source), scaled with the page so that a
\* page is a whole number of cache lines
CacheLine == 4

RECURSIVE Pow2(_)
Pow2(n) == IF n = 0 THEN 1 ELSE 2 * Pow2(n - 1)

\* number of values of a uint32_t (scaled)
ChanMod == Pow2(ChanBits)
\* number of values of a VkDeviceSize / size_t (scaled)
SizeMod == ChanMod * ChanMod
\* app.config.heap_size: 8 GiB, twice the range of a channel word
HeapSize == 2 * ChanMod

\* conversion of an argument to the uint32_t parameter of *_send
ToU32(x) == x % ChanMod
\* arithmetic on VkDeviceSize wraps
ToU64(x) == x % SizeMod

\* width * height * 4
ImgSize == Width * Height * PixelSize

(* ------------------------- device and platform ------------------------ *)

IMPORTABLE == "IMPORTABLE"
DEDICATED_ONLY == "DEDICATED_ONLY"
\* externalMemoryFeatures a device may report for a buffer usage
FeatureSets == SUBSET {IMPORTABLE, DEDICATED_ONLY}

\* minImportedHostPointerAlignment a device may report
HostAligns == {PageSize, 2 * PageSize}
\* addresses mmap may return for the renderer's mapping
HeapBases == {k * PageSize : k \in 1..MaxBasePages}

RoundUp(x, a) == IF x % a = 0 THEN x ELSE x - (x % a) + a

\* memoryRequirements.size a device may report for a buffer of `size` bytes:
\* the size itself, a little more, the size padded to the largest alignment,
\* and sizes beyond the range of a channel word: one that is at least the
\* size again when cut to a channel word, and one that is not
ReqSizes(size) ==
    {size, size + 1, RoundUp(size + 1, 2 * PageSize), ChanMod + size - 3,
     ChanMod + 1}

\* a & b on uint32_t memoryTypeBits
RECURSIVE BitAnd(_, _)
BitAnd(a, b) ==
    IF a = 0 \/ b = 0 THEN 0
    ELSE (a % 2) * (b % 2) + 2 * BitAnd(a \div 2, b \div 2)

\* ffs(x): the position of the least significant set bit, counted from 1,
\* and 0 when x is 0
RECURSIVE Ffs(_)
Ffs(x) == IF x = 0 THEN 0 ELSE IF x % 2 = 1 THEN 1 ELSE 1 + Ffs(x \div 2)

\* the memoryTypeBits a device may report: for a uniform buffer and for an
\* output buffer (vkGetBufferMemoryRequirements2), and for the imported
\* host pointer or dma-buf (vkGetMemoryHostPointerPropertiesEXT,
\* vkGetMemoryFdPropertiesKHR)
Devices ==
    {[ubo_types |-> 7, output_types |-> 5, import_types |-> 6],
     [ubo_types |-> 3, output_types |-> 1, import_types |-> 6]}

VARIABLES
    argv, output_count, is_coherent, use_udmabuf,
    app_pc, app_msg, app_layout, mems, output, output_inc, channel, app_val,
    app_fds, app_memfd, app_renderer, app_xcb,
    r_pc, r_msg, heap_base, heap_layout, r_ubo, r_outputs, r_output, queue,
    r_fds, child, child_argv, r_args,
    device, allocs, dev_write, prev_runs,
    c2r, r2c,
    sent_r2c, pending, last_req, req_no, last_done, app_ops

vars == <<argv, output_count, is_coherent, use_udmabuf,
          app_pc, app_msg, app_layout, mems, output, output_inc, channel, app_val,
          app_fds, app_memfd, app_renderer, app_xcb,
          r_pc, r_msg, heap_base, heap_layout, r_ubo, r_outputs, r_output, queue,
          r_fds, child, child_argv, r_args,
          device, allocs, dev_write, prev_runs,
          c2r, r2c,
          sent_r2c, pending, last_req, req_no, last_done, app_ops>>

cfg_vars == <<argv, output_count, is_coherent, use_udmabuf>>
\* the controller's open descriptors, app.heap.memfd and app.renderer
app_fd_vars == <<app_fds, app_memfd, app_renderer>>
\* app_xcb: app.xcb.img_size and the maximum request length of the X
\* connection, both 0 until app_init_xcb
app_vars ==
    <<app_pc, app_msg, app_layout, mems, output, output_inc, channel, app_val,
      app_fd_vars, app_xcb>>
\* the child's open descriptors, its copies of child_in and child_out, the
\* argv it is executed with and the renderer_args its main parses from it
r_fd_vars == <<r_fds, child, child_argv, r_args>>
\* the Vulkan device: the memory types it reports, the allocations
\* vkAllocateMemory has made on it, oldest first, and the buffer the last
\* executed command buffer copied the image into.  prev_runs holds what an
\* earlier run of the program negotiated
vk_vars == <<device, allocs, dev_write, prev_runs>>
\* queue: the command buffers submitted to the VkQueue and not yet executed
r_vars ==
    <<r_pc, r_msg, heap_base, heap_layout, r_ubo, r_outputs, r_output, queue,
      r_fd_vars, vk_vars>>
\* the data in pipes[1] (written through app.renderer.out) and in pipes[0]
\* (read through app.renderer.in)
chan_vars == <<c2r, r2c>>
\* history: the first three values written to r2c, the number of requests
\* written and not yet answered, the index of the last request (-1: none)
\* its place in the period of the index sequence (-1: none, 0: the first
\* request, then 1..2*output_count-1 again and again), the index of the last
\* workload the device finished (-1: none), and the memory, cache and
\* channel operations of the controller's current frame
ghost_vars == <<sent_r2c, pending, last_req, req_no, last_done, app_ops>>

(* ------------------------------- state -------------------------------- *)

\* struct renderer is zero-initialised apart from config and ctrl
ZeroLayout ==
    [base_skip |-> 0, ubo_size |-> 0, output_size |-> 0, mem_align |-> 0,
     ubo_used_size |-> 0, ubo_features |-> {}, ubo_reqs |-> 0,
     output_used_size |-> 0, output_features |-> {}, output_reqs |-> 0,
     ubo_types |-> 0, output_types |-> 0]

(* strings that the program formats or scans are sequences of characters *)

TokUdmabuf == <<"u", "d", "m", "a", "b", "u", "f">>
TokMemfd == <<"m", "e", "m", "f", "d">>
TokCoherent == <<"c", "o", "h", "e", "r", "e", "n", "t">>
TokIncoherent == <<"i", "n">> \o TokCoherent
RendererPrefix == <<"r", "e", "n", "d", "e", "r", "e", "r", "-">>

Digits == <<"0", "1", "2", "3", "4", "5", "6", "7", "8", "9">>
IsDigit(c) == \E d \in 1..10 : Digits[d] = c
DigitVal(c) == (CHOOSE d \in 1..10 : Digits[d] = c) - 1

\* "%d" of snprintf
RECURSIVE Dec(_)
Dec(n) ==
    IF n < 0 THEN <<"-">> \o Dec(-n)
    ELSE IF n < 10 THEN <<Digits[n + 1]>>
    ELSE Dec(n \div 10) \o <<Digits[(n % 10) + 1]>>

\* snprintf(child_renderer, ..., "renderer-%d-%d-%d", in, out, memfd)
RendererToken(in, out, memfd) ==
    RendererPrefix \o Dec(in) \o <<"-">> \o Dec(out) \o <<"-">> \o Dec(memfd)

\* the digits of s from position i on, added to acc
RECURSIVE ScanDigits(_, _, _)
ScanDigits(s, i, acc) ==
    IF i <= Len(s) /\ IsDigit(s[i])
    THEN ScanDigits(s, i + 1, acc * 10 + DigitVal(s[i]))
    ELSE [val |-> acc, next |-> i]

\* "%d" of sscanf at position i of s: an optional sign and at least one
\* digit; next is the position after the number
ScanInt(s, i) ==
    LET j == IF i <= Len(s) /\ s[i] \in {"-", "+"} THEN i + 1 ELSE i
        d == ScanDigits(s, j, 0)
    IN IF j > Len(s) \/ ~IsDigit(s[j])
       THEN [ok |-> FALSE, val |-> 0, next |-> i]
       ELSE [ok |-> TRUE, val |-> IF s[i] = "-" THEN -d.val ELSE d.val,
             next |-> d.next]

\* the literal "-" of the sscanf format at position i of s
ScanDash(s, i) == i <= Len(s) /\ s[i] = "-"

\* sscanf(s, "%d-%d-%d", &a, &b, &c): the number of conversions and the
\* values stored
ScanConversions(s, a, b, c) ==
    IF ~a.ok THEN [count |-> 0, vals |-> <<>>]
    ELSE IF ~ScanDash(s, a.next) \/ ~b.ok THEN [count |-> 1, vals |-> <<a.val>>]
    ELSE IF ~ScanDash(s, b.next) \/ ~c.ok
    THEN [count |-> 2, vals |-> <<a.val, b.val>>]
    ELSE [count |-> 3, vals |-> <<a.val, b.val, c.val>>]

\* (a, b and c are each scanned once, from where the previous one ended)
ScanRendererArgs(s) ==
    CHOOSE scan \in
        UNION { UNION { { ScanConversions(s, a, b, c) :
                              c \in {ScanInt(s, b.next + 1)} } :
                          b \in {ScanInt(s, a.next + 1)} } :
                  a \in {ScanInt(s, 1)} } : TRUE

\* !strncmp(arg, "renderer-", 9)
IsRendererToken(arg) ==
    Len(arg) >= Len(RendererPrefix)
        /\ SubSeq(arg, 1, Len(RendererPrefix)) = RendererPrefix

\* app.config and renderer_args as main initialises them; fatal and usage
\* record that the argv loop ended the process
DefaultConfig ==
    [is_coherent |-> TRUE, use_udmabuf |-> FALSE,
     valid |-> FALSE, ctrl_in |-> 0, ctrl_out |-> 0, memfd |-> 0,
     fatal |-> FALSE, usage |-> FALSE]

\* the "renderer-" branch of the argv loop: valid is set before sscanf runs
ParseRendererArg(scan, config) ==
    IF scan.count # 3
    THEN [config EXCEPT !.valid = TRUE, !.fatal = TRUE]
    ELSE [config EXCEPT !.valid = TRUE, !.ctrl_in = scan.vals[1],
                        !.ctrl_out = scan.vals[2], !.memfd = scan.vals[3]]

\* one iteration of the argv loop of main
ParseArg(arg, config) ==
    IF IsRendererToken(arg)
    THEN CHOOSE parsed \in
             { ParseRendererArg(scan, config) :
                   scan \in {ScanRendererArgs(SubSeq(arg, Len(RendererPrefix) + 1,
                                                     Len(arg)))} } : TRUE
    ELSE IF arg = TokUdmabuf THEN [config EXCEPT !.use_udmabuf = TRUE]
    ELSE IF arg = TokMemfd THEN [config EXCEPT !.use_udmabuf = FALSE]
    ELSE IF arg = TokCoherent THEN [config EXCEPT !.is_coherent = TRUE]
    ELSE IF arg = TokIncoherent THEN [config EXCEPT !.is_coherent = FALSE]
    ELSE [config EXCEPT !.usage = TRUE]

\* the argv loop of main
RECURSIVE ParseArgs(_, _)
ParseArgs(args, config) ==
    IF args = <<>> \/ config.fatal \/ config.usage THEN config
    ELSE ParseArgs(Tail(args), ParseArg(Head(args), config))

\* a token main does not know, and a "renderer-" token without numbers
TokOther == <<"x">>
TokRendererOther == RendererPrefix \o <<"x">>

\* argv[1..] of the controller
Argvs ==
    {<<>>, <<TokCoherent>>, <<TokIncoherent>>, <<TokUdmabuf>>,
     <<TokIncoherent, TokUdmabuf>>,
     <<TokOther>>, <<TokUdmabuf, TokOther>>, <<TokOther, TokIncoherent>>,
     <<RendererToken(5, 6, 4), TokOther>>, <<TokRendererOther>>}

(* descriptors: a table maps each open descriptor to what it refers to *)

PipeRef(id, end) == [kind |-> "pipe", id |-> id, end |-> end]
MemfdRef == [kind |-> "memfd", id |-> 0, end |-> "rw"]
TtyRef == [kind |-> "tty", id |-> 0, end |-> "rw"]

\* stdin, stdout and stderr
StdFds == [fd \in 0..2 |-> TtyRef]

\* the descriptor a call that opens one returns: the lowest not in use
LowestFree(tab) ==
    CHOOSE n \in 0..MaxFd : n \notin DOMAIN tab /\ \A m \in 0..(n - 1) : m \in DOMAIN tab

Open(tab, fd, ref) == (fd :> ref) @@ tab

\* mutant: close() leaves the descriptor open
Close_Keep(tab, fd) == tab

Close(tab, fd) == [f \in (DOMAIN tab) \ {fd} |-> tab[f]]

\* pipe(fds): the table afterwards and the two descriptors, read end first
Pipe(tab, id) ==
    LET rd == LowestFree(tab)
        t1 == Open(tab, rd, PipeRef(id, "r"))
        wr == LowestFree(t1)
    IN [tab |-> Open(t1, wr, PipeRef(id, "w")), fds |-> <<rd, wr>>]

\* renderer_args of a process that has not parsed any
\* no command buffer has been executed, or one that copies nowhere in the heap
NoTarget == [offset |-> -1, size |-> 0]

NoArgs == [ctrl_in |-> 0, ctrl_out |-> 0, memfd |-> 0, use_udmabuf |-> FALSE]

Init ==
    /\ argv \in Argvs
    /\ output_count \in 1..MaxOutputCount
    /\ is_coherent = DefaultConfig.is_coherent
    /\ use_udmabuf = DefaultConfig.use_udmabuf
    /\ app_pc = "main"
    /\ app_msg = ""
    /\ app_layout = <<>>
    /\ mems = [ubo |-> 0, outputs |-> <<>>]
    /\ output = 0
    /\ output_inc = 1
    /\ channel = 0
    /\ app_val = 0
    /\ app_fds = StdFds
    /\ app_memfd = -1
    /\ app_renderer = [in |-> -1, out |-> -1]
    /\ app_xcb = [img_size |-> 0, max_len |-> 0]
    /\ r_pc = "none"
    /\ r_msg = ""
    /\ heap_base = 0
    /\ heap_layout = ZeroLayout
    /\ r_ubo = [offset |-> 0, size |-> 0]
    /\ r_outputs = <<>>
    /\ r_output = 0
    /\ queue = <<>>
    /\ r_fds = <<>>
    /\ child = [in |-> -1, out |-> -1]
    /\ child_argv = <<>>
    /\ r_args = NoArgs
    /\ device \in Devices
    /\ allocs = <<>>
    /\ dev_write = NoTarget
    /\ prev_runs = <<>>
    /\ c2r = <<>>
    /\ r2c = <<>>
    /\ sent_r2c = <<>>
    /\ pending = 0
    /\ last_req = -1
    /\ req_no = -1
    /\ last_done = -1
    /\ app_ops = <<>>

AppAlive == app_pc # "aborted"
\* the process holding the renderer's pipe ends exists and has not ended
RendererAlive == r_pc \notin {"none", "aborted"}

\* app_fatal: print and abort().  app_usage ends the process too, with
\* exit(1); it is AppFatal("usage")
AppFatal(msg) ==
    /\ app_pc' = "aborted"
    /\ app_msg' = msg

\* renderer_fatal: print and abort()
RendererFatal(msg) ==
    /\ r_pc' = "aborted"
    /\ r_msg' = msg

(* ------------------------------ channels ------------------------------ *)

\* the first three values the renderer writes
LogSent(v) ==
    sent_r2c' = IF Len(sent_r2c) < 3 THEN Append(sent_r2c, v) ELSE sent_r2c

\* the pipe a descriptor gives access to for reading ("r") or writing ("w"),
\* or -1 when it is not open or is not that end of a pipe
PipeOf(tab, fd, end) ==
    IF fd \in DOMAIN tab /\ tab[fd].kind = "pipe" /\ tab[fd].end = end
    THEN tab[fd].id
    ELSE -1

\* the unread words of pipe p
PipeData(p) == IF p = 0 THEN r2c ELSE c2r

PipeWrite(p, v) ==
    IF p = 0 THEN r2c' = Append(r2c, v) /\ c2r' = c2r
    ELSE c2r' = Append(c2r, v) /\ r2c' = r2c

PipeRead(p) ==
    IF p = 0 THEN r2c' = Tail(r2c) /\ c2r' = c2r
    ELSE c2r' = Tail(c2r) /\ r2c' = r2c

Holds(tab, p, end) == \E fd \in DOMAIN tab : tab[fd] = PipeRef(p, end)

\* some living process has the write end, the read end, of pipe p open
HasWriter(p) ==
    \/ AppAlive /\ Holds(app_fds, p, "w")
    \/ RendererAlive /\ Holds(r_fds, p, "w")
HasReader(p) ==
    \/ AppAlive /\ Holds(app_fds, p, "r")
    \/ RendererAlive /\ Holds(r_fds, p, "r")

\* the pipes behind app.renderer.in, app.renderer.out, renderer.ctrl.in and
\* renderer.ctrl.out
AppIn == PipeOf(app_fds, app_renderer.in, "r")
AppOut == PipeOf(app_fds, app_renderer.out, "w")
RendererIn == PipeOf(r_fds, r_args.ctrl_in, "r")
RendererOut == PipeOf(r_fds, r_args.ctrl_out, "w")

\* read() in app_recv returns 4 bytes
AppCanRead == AppIn # -1 /\ PipeData(AppIn) # <<>>
\* mutant: a write end of the pipe stays open somewhere, read() never
\* returns 0
AppReadEof_Never == FALSE
\* read() fails, or returns 0: the pipe is empty and no write end is open
AppReadEof == AppIn = -1 \/ (PipeData(AppIn) = <<>> /\ ~HasWriter(AppIn))
\* read() in renderer_recv
RendererCanRead == RendererIn # -1 /\ PipeData(RendererIn) # <<>>
RendererReadEof ==
    RendererIn = -1 \/ (PipeData(RendererIn) = <<>> /\ ~HasWriter(RendererIn))

\* write() in app_send and renderer_send: it transfers 4 bytes, or fails on
\* a bad descriptor, or raises SIGPIPE when no read end is open
AppCanWrite ==
    AppOut # -1 /\ HasReader(AppOut) /\ Len(PipeData(AppOut)) < PipeCap
AppWriteFails == AppOut = -1 \/ ~HasReader(AppOut)
RendererCanWrite ==
    /\ RendererOut # -1
    /\ HasReader(RendererOut)
    /\ Len(PipeData(RendererOut)) < PipeCap
RendererWriteFails == RendererOut = -1 \/ ~HasReader(RendererOut)
WriteFailure(p) == IF p = -1 THEN "failed to send a value" ELSE "SIGPIPE"

(* ----------------------------- controller ----------------------------- *)

heap_skip == app_layout[1]
ubo_size == app_layout[2]
output_size == app_layout[3]

\* main up to app_init_heap: the argv loop sets app.config and
\* renderer_args.  A "renderer-" token that sscanf cannot convert ends the
\* process in app_fatal; any other token main does not know ends it in
\* app_usage, which prints the usage and calls exit(1); with a renderer
\* token the process goes on as the renderer, without one as the controller
AppMain ==
    /\ app_pc = "main"
    /\ \E parsed \in {ParseArgs(argv, DefaultConfig)} :
          /\ is_coherent' = parsed.is_coherent
          /\ use_udmabuf' = parsed.use_udmabuf
          /\ \/ /\ parsed.fatal
                /\ AppFatal("invalid renderer args")
             \/ /\ parsed.usage
                /\ AppFatal("usage")
             \/ /\ ~parsed.fatal /\ ~parsed.usage
                /\ app_pc' = IF parsed.valid THEN "renderer" ELSE "init_heap"
                /\ UNCHANGED app_msg
    /\ UNCHANGED <<argv, output_count>>
    /\ UNCHANGED <<app_layout, mems, output, output_inc, channel, app_val>>
    /\ UNCHANGED <<app_fd_vars, app_xcb>>
    /\ UNCHANGED <<r_vars, chan_vars, ghost_vars>>

\* app_init_heap: memfd_create, ftruncate, F_ADD_SEALS, mmap
AppInitHeap ==
    /\ app_pc = "init_heap"
    /\ \/ /\ app_pc' = "init_renderer"
          /\ app_memfd' = LowestFree(app_fds)
          /\ app_fds' = Open(app_fds, LowestFree(app_fds), MemfdRef)
          /\ UNCHANGED app_msg
       \/ /\ \E m \in {"failed to create memfd", "failed to set memfd size",
                       "failed to seal memfd", "failed to map memfd"} :
                 AppFatal(m)
          /\ UNCHANGED <<app_fds, app_memfd>>
    /\ UNCHANGED <<app_layout, mems, output, output_inc, channel, app_val>>
    /\ UNCHANGED <<app_renderer, app_xcb>>
    /\ UNCHANGED <<cfg_vars, r_vars, chan_vars, ghost_vars>>

\* app->renderer.in = pipes[0][0], app->renderer.out = pipes[1][1]
ParentEnds(pipes) == [in |-> pipes[1][1], out |-> pipes[2][2]]

\* mutant: the child is given the parent's ends
ChildEnds_Swapped(pipes) == [in |-> pipes[1][1], out |-> pipes[2][2]]

\* child_in = pipes[1][0], child_out = pipes[0][1]
ChildEnds(pipes) == [in |-> pipes[2][1], out |-> pipes[1][2]]

\* app_init_renderer, parent side: two pipes, fork, close the child's ends.
\* The child starts with a copy of the descriptors open at the fork.
AppInitRenderer ==
    /\ app_pc = "init_renderer"
    /\ \/ \E p0 \in {Pipe(app_fds, 0)} :
          \E p1 \in {Pipe(p0.tab, 1)} :
          \E child_ends \in {ChildEnds(<<p0.fds, p1.fds>>)} :
             /\ app_renderer' = ParentEnds(<<p0.fds, p1.fds>>)
             /\ child' = child_ends
             /\ r_fds' = p1.tab
             /\ app_fds' = Close(Close(p1.tab, child_ends.in), child_ends.out)
             /\ app_pc' = "init_xcb"
             /\ r_pc' = "child"
             /\ UNCHANGED app_msg
       \/ /\ \E m \in {"failed to create pipes", "failed to fork the renderer"} :
                 AppFatal(m)
          /\ UNCHANGED <<r_pc, app_fds, app_renderer, child, r_fds>>
    /\ UNCHANGED <<app_layout, mems, output, output_inc, channel, app_val>>
    /\ UNCHANGED <<app_memfd, app_xcb, child_argv, r_args>>
    /\ UNCHANGED <<r_msg, heap_base, heap_layout, r_ubo, r_outputs, r_output, queue>>
    /\ UNCHANGED vk_vars
    /\ UNCHANGED <<cfg_vars, chan_vars, ghost_vars>>

\* xcb_get_maximum_request_length answers the X server may give
XcbMaxLens == {2 * ImgSize - 1, 2 * ImgSize}

\* mutant: the image size is not compared with the request length
AppInitXcb_NoCheck ==
    /\ app_pc = "init_xcb"
    /\ \/ AppFatal("failed to connect to X") /\ UNCHANGED app_xcb
       \/ \E max_len \in XcbMaxLens :
              /\ app_xcb' = [img_size |-> ImgSize, max_len |-> max_len]
              /\ app_pc' = "recv_heap_skip" /\ UNCHANGED app_msg
    /\ UNCHANGED <<app_layout, mems, output, output_inc, channel, app_val>>
    /\ UNCHANGED <<cfg_vars, r_vars, chan_vars, ghost_vars>>
    /\ UNCHANGED app_fd_vars

\* app_init_xcb: connect, create window and gc, check the image size
AppInitXcb ==
    /\ app_pc = "init_xcb"
    /\ \/ AppFatal("failed to connect to X") /\ UNCHANGED app_xcb
       \/ \E max_len \in XcbMaxLens :
              /\ app_xcb' = [img_size |-> ImgSize, max_len |-> max_len]
              /\ IF ImgSize > max_len \div 2
                 THEN AppFatal("image size too big")
                 ELSE app_pc' = "recv_heap_skip" /\ UNCHANGED app_msg
    /\ UNCHANGED <<app_layout, mems, output, output_inc, channel, app_val>>
    /\ UNCHANGED <<cfg_vars, r_vars, chan_vars, ghost_vars>>
    /\ UNCHANGED app_fd_vars

AppRecvNext(pc) ==
    CASE pc = "recv_heap_skip" -> "recv_ubo_size"
      [] pc = "recv_ubo_size" -> "recv_output_size"
      [] pc = "recv_output_size" -> "init_memories"

\* main: heap_skip, ubo_size and output_size are each app_recv()
AppRecvLayout ==
    /\ app_pc \in {"recv_heap_skip", "recv_ubo_size", "recv_output_size"}
    /\ \/ /\ AppCanRead
          /\ app_val' = Head(PipeData(AppIn))
          /\ app_layout' = Append(app_layout, Head(PipeData(AppIn)))
          /\ PipeRead(AppIn)
          /\ app_pc' = AppRecvNext(app_pc)
          /\ UNCHANGED app_msg
       \/ /\ AppReadEof
          /\ AppFatal("failed to receive a value")
          /\ UNCHANGED <<app_val, app_layout, chan_vars>>
    /\ UNCHANGED <<mems, output, output_inc, channel>>
    /\ UNCHANGED <<cfg_vars, r_vars, ghost_vars>>
    /\ UNCHANGED <<app_fd_vars, app_xcb>>

\* the pointers app_init_memories derives, as offsets from app->heap.base
AppMems(skip, usize, osize) ==
    [ubo |-> skip,
     outputs |-> [i \in 1..output_count |-> skip + usize + (i - 1) * osize]]

\* mutant: the end of the layout is taken without heap_skip
AppLayoutEnd_NoSkip(skip, usize, osize) == usize + output_count * osize

\* ptr - app->heap.base after the loop of app_init_memories
AppLayoutEnd(skip, usize, osize) == skip + usize + output_count * osize

\* app_init_memories(app, heap_skip, ubo_size, output_size)
AppInitMemories ==
    /\ app_pc = "init_memories"
    /\ mems' = AppMems(heap_skip, ubo_size, output_size)
    /\ IF ubo_size < Vec4Size
       THEN AppFatal("invalid ubo size")
       ELSE IF output_size < ImgSize
       THEN AppFatal("invalid output size")
       ELSE IF AppLayoutEnd(heap_skip, ubo_size, output_size) > HeapSize
       THEN AppFatal("heap size too small")
       ELSE app_pc' = "mainloop" /\ UNCHANGED app_msg
    /\ UNCHANGED <<app_layout, output, output_inc, channel, app_val>>
    /\ UNCHANGED <<cfg_vars, r_vars, chan_vars, ghost_vars>>
    /\ UNCHANGED <<app_fd_vars, app_xcb>>

Op(op, at) == [op |-> op, at |-> at]

\* the place of the request about to be sent in the period of the sequence
NextReqNo ==
    IF req_no = -1 THEN 0 ELSE (req_no % (2 * output_count - 1)) + 1

\* mutant: the flush is issued without the fence
UboWriteOps_NoFence ==
    <<Op("memcpy", mems.ubo)>>
        \o (IF ~is_coherent THEN <<Op("clflush", mems.ubo)>> ELSE <<>>)

\* app_render_frame up to app_send: memcpy into the ubo, then mfence and
\* clflush of the ubo when the heap is assumed incoherent
UboWriteOps ==
    <<Op("memcpy", mems.ubo)>>
        \o (IF ~is_coherent
            THEN <<Op("mfence", -1), Op("clflush", mems.ubo)>>
            ELSE <<>>)

\* mutant: the next request is written without waiting for the reply
AppRenderFrameSend_NoWait ==
    /\ app_pc \in {"mainloop", "recv_reply"}
    /\ AppCanWrite
    /\ PipeWrite(AppOut, ToU32(output))
    /\ app_pc' = "recv_reply"
    /\ pending' = pending + 1
    /\ last_req' = output
    /\ req_no' = NextReqNo
    /\ app_ops' = Append(UboWriteOps, Op("send", ToU32(output)))
    /\ UNCHANGED <<app_msg, app_layout, mems, output, output_inc, channel, app_val>>
    /\ UNCHANGED <<cfg_vars, r_vars, sent_r2c, last_done>>
    /\ UNCHANGED <<app_fd_vars, app_xcb>>

\* app_mainloop up to the blocking read of app_render_frame: poll for an
\* event, write the colour into the ubo, app_send(output)
AppRenderFrameSend ==
    /\ app_pc = "mainloop"
    /\ \/ /\ AppFatal("unexpected XCB event")
          /\ UNCHANGED <<chan_vars, pending, last_req, req_no, app_ops>>
       \/ /\ AppCanWrite
          /\ PipeWrite(AppOut, ToU32(output))
          /\ app_pc' = "recv_reply"
          /\ pending' = pending + 1
          /\ last_req' = output
          /\ req_no' = NextReqNo
          /\ app_ops' = Append(UboWriteOps, Op("send", ToU32(output)))
          /\ UNCHANGED app_msg
       \/ /\ AppWriteFails
          /\ AppFatal(WriteFailure(AppOut))
          /\ app_ops' = UboWriteOps
          /\ UNCHANGED <<chan_vars, pending, last_req, req_no>>
    /\ UNCHANGED <<app_layout, mems, output, output_inc, channel, app_val>>
    /\ UNCHANGED <<cfg_vars, r_vars, sent_r2c, last_done>>
    /\ UNCHANGED <<app_fd_vars, app_xcb>>

\* mutant: the reply is read and not compared with the request
AppRenderFrameRecv_NoCheck ==
    /\ app_pc = "recv_reply"
    /\ AppCanRead
    /\ app_val' = Head(PipeData(AppIn))
    /\ PipeRead(AppIn)
    /\ pending' = pending - 1
    /\ app_ops' = Append(app_ops, Op("recv", Head(PipeData(AppIn))))
    /\ app_pc' = "present"
    /\ UNCHANGED <<app_msg, app_layout, mems, output, output_inc, channel>>
    /\ UNCHANGED <<cfg_vars, r_vars, sent_r2c, last_req, req_no, last_done>>
    /\ UNCHANGED <<app_fd_vars, app_xcb>>

\* mutant: the read does not block; with nothing to read the frame is
\* presented at once
AppRenderFrameRecv_NoBlock ==
    /\ app_pc = "recv_reply"
    /\ IF AppCanRead
       THEN /\ app_val' = Head(PipeData(AppIn))
            /\ PipeRead(AppIn)
            /\ pending' = pending - 1
            /\ app_ops' = Append(app_ops, Op("recv", Head(PipeData(AppIn))))
            /\ IF Head(PipeData(AppIn)) # ToU32(output)
               THEN AppFatal("unexpected renderer output")
               ELSE app_pc' = "present" /\ UNCHANGED app_msg
       ELSE /\ app_pc' = "present"
            /\ UNCHANGED <<app_msg, app_val, chan_vars, pending, app_ops>>
    /\ UNCHANGED <<app_layout, mems, output, output_inc, channel>>
    /\ UNCHANGED <<cfg_vars, r_vars, sent_r2c, last_req, req_no, last_done>>
    /\ UNCHANGED <<app_fd_vars, app_xcb>>

\* app_render_frame from app_recv on: the reply must be the request
AppRenderFrameRecv ==
    /\ app_pc = "recv_reply"
    /\ \/ /\ AppCanRead
          /\ app_val' = Head(PipeData(AppIn))
          /\ PipeRead(AppIn)
          /\ pending' = pending - 1
          /\ app_ops' = Append(app_ops, Op("recv", Head(PipeData(AppIn))))
          /\ IF Head(PipeData(AppIn)) # ToU32(output)
             THEN AppFatal("unexpected renderer output")
             ELSE app_pc' = "present" /\ UNCHANGED app_msg
       \/ /\ AppReadEof
          /\ AppFatal("failed to receive a value")
          /\ UNCHANGED <<app_val, chan_vars, pending, app_ops>>
    /\ UNCHANGED <<app_layout, mems, output, output_inc, channel>>
    /\ UNCHANGED <<cfg_vars, r_vars, sent_r2c, last_req, req_no, last_done>>
    /\ UNCHANGED <<app_fd_vars, app_xcb>>

\* "next value/channel" at the end of the loop body of app_mainloop
NextOutput(out, inc, chan) ==
    LET o == out + inc IN
    IF o >= output_count
    THEN [output |-> output_count - 1, output_inc |-> -1, channel |-> chan]
    ELSE IF o < 0
    THEN [output |-> 1, output_inc |-> 1, channel |-> (chan + 1) % 3]
    ELSE [output |-> o, output_inc |-> inc, channel |-> chan]

\* the loop of app_present_frame: one clflush per CacheLine bytes from ptr
\* while ptr < end
RECURSIVE SweepFrom(_, _)
SweepFrom(ptr, end) ==
    IF ptr < end
    THEN <<Op("clflush", ptr)>> \o SweepFrom(ptr + CacheLine, end)
    ELSE <<>>

\* mutant: the sweep and the fence are issued whatever the assumption
PresentOps_Always(ptr) ==
    SweepFrom(ptr, ptr + ImgSize) \o <<Op("mfence", -1)>>
        \o <<Op("put_image", ptr)>>

\* app_present_frame up to xcb_put_image, reading from ptr
PresentOps(ptr) ==
    (IF ~is_coherent
     THEN SweepFrom(ptr, ptr + ImgSize) \o <<Op("mfence", -1)>>
     ELSE <<>>)
        \o <<Op("put_image", ptr)>>

\* what a read past the end of mems.outputs may yield
WildPtrs == {0, HeapSize}

\* app->mems.outputs[output]; the array has output_count elements
OutputPtrs ==
    IF output \in 0..(output_count - 1)
    THEN {mems.outputs[output + 1]}
    ELSE WildPtrs

\* app_present_frame(app, output), then the next value/channel.  An index
\* past the end of mems.outputs yields a stray pointer, after which the
\* process may crash or carry on
AppPresentFrame ==
    /\ app_pc = "present"
    /\ \/ /\ \E ptr \in OutputPtrs : app_ops' = app_ops \o PresentOps(ptr)
          /\ LET n == NextOutput(output, output_inc, channel) IN
                 /\ output' = n.output
                 /\ output_inc' = n.output_inc
                 /\ channel' = n.channel
          /\ app_pc' = "mainloop"
          /\ UNCHANGED app_msg
       \/ /\ output \notin 0..(output_count - 1)
          /\ AppFatal("SIGSEGV")
          /\ UNCHANGED <<output, output_inc, channel, app_ops>>
    /\ UNCHANGED <<app_layout, mems, app_val>>
    /\ UNCHANGED <<cfg_vars, r_vars, chan_vars, sent_r2c, pending, last_req, req_no, last_done>>
    /\ UNCHANGED <<app_fd_vars, app_xcb>>

AppNext ==
    \/ AppMain
    \/ AppInitHeap
    \/ AppInitRenderer
    \/ AppInitXcb
    \/ AppRecvLayout
    \/ AppInitMemories
    \/ AppRenderFrameSend
    \/ AppRenderFrameRecv
    \/ AppPresentFrame

(* ------------------------------ renderer ------------------------------ *)

\* child_argv[1..] of app_init_renderer
ChildArgv(in, out, memfd) ==
    <<RendererToken(in, out, memfd),
      IF use_udmabuf THEN TokUdmabuf ELSE TokMemfd>>

\* sizeof(child_renderer)
TokenBufSize == 32

\* app_init_renderer, child side: close the parent's ends, dup the memfd,
\* format the renderer token, exec argv0 with it and the import-path token
ChildExec ==
    /\ r_pc = "child"
    /\ LET t1 == Close(Close(r_fds, app_renderer.in), app_renderer.out)
           child_memfd == LowestFree(t1)
       IN \/ /\ Len(RendererToken(child.in, child.out, child_memfd)) < TokenBufSize
             \* (the memfd itself is MFD_CLOEXEC, its duplicate is not)
             /\ r_fds' = Close(Open(t1, child_memfd, MemfdRef), app_memfd)
             /\ child_argv' = ChildArgv(child.in, child.out, child_memfd)
             /\ r_pc' = "main"
             /\ UNCHANGED r_msg
          \/ /\ Len(RendererToken(child.in, child.out, child_memfd)) >= TokenBufSize
             /\ RendererFatal("failed to format the renderer string")
             /\ r_fds' = Open(t1, child_memfd, MemfdRef)
             /\ UNCHANGED child_argv
          \/ /\ RendererFatal("failed to dup memfd")
             /\ r_fds' = t1
             /\ UNCHANGED child_argv
          \/ /\ RendererFatal("failed to exec the renderer")
             /\ r_fds' = Open(t1, child_memfd, MemfdRef)
             /\ UNCHANGED child_argv
    /\ UNCHANGED <<heap_base, heap_layout, r_ubo, r_outputs, r_output, queue>>
    /\ UNCHANGED vk_vars
    /\ UNCHANGED <<child, r_args>>
    /\ UNCHANGED <<cfg_vars, app_vars, chan_vars, ghost_vars>>

\* main in the child: the argv loop, then renderer() with renderer_args
RendererMain ==
    /\ r_pc = "main"
    /\ \E parsed \in {ParseArgs(child_argv, DefaultConfig)} :
          \/ /\ parsed.fatal
             /\ RendererFatal("invalid renderer args")
             /\ UNCHANGED r_args
          \/ /\ parsed.usage
             /\ RendererFatal("usage")
             /\ UNCHANGED r_args
          \/ /\ ~parsed.fatal /\ ~parsed.usage /\ parsed.valid
             /\ r_args' = [ctrl_in |-> parsed.ctrl_in, ctrl_out |-> parsed.ctrl_out,
                           memfd |-> parsed.memfd,
                           use_udmabuf |-> parsed.use_udmabuf]
             /\ r_pc' = "init_heap"
             /\ UNCHANGED r_msg
    /\ UNCHANGED <<heap_base, heap_layout, r_ubo, r_outputs, r_output, queue>>
    /\ UNCHANGED vk_vars
    /\ UNCHANGED <<r_fds, child, child_argv>>
    /\ UNCHANGED <<cfg_vars, app_vars, chan_vars, ghost_vars>>

\* renderer_init_heap: lseek for the size, then mmap or udmabuf_init
RendererInitHeap ==
    /\ r_pc = "init_heap"
    /\ \/ /\ r_args.memfd \in DOMAIN r_fds
          /\ r_fds[r_args.memfd] = MemfdRef
          /\ r_pc' = "init_vk"
          /\ heap_base' \in (IF r_args.use_udmabuf THEN {0} ELSE HeapBases)
          /\ UNCHANGED r_msg
       \/ /\ \E m \in {"failed to get memfd size",
                       IF r_args.use_udmabuf THEN "failed to initialize udmabuf"
                                             ELSE "failed to map memfd"} :
                 RendererFatal(m)
          /\ UNCHANGED heap_base
    /\ UNCHANGED <<heap_layout, r_ubo, r_outputs, r_output, queue>>
    /\ UNCHANGED vk_vars
    /\ UNCHANGED <<cfg_vars, app_vars, chan_vars, ghost_vars>>
    /\ UNCHANGED r_fd_vars

\* renderer_init_vk_instance, _physical_device, _device
RendererInitVk ==
    /\ r_pc = "init_vk"
    /\ \/ r_pc' = "init_heap_layout" /\ UNCHANGED r_msg
       \/ RendererFatal("failed to create device")
    /\ UNCHANGED <<heap_base, heap_layout, r_ubo, r_outputs, r_output, queue>>
    /\ UNCHANGED vk_vars
    /\ UNCHANGED <<cfg_vars, app_vars, chan_vars, ghost_vars>>
    /\ UNCHANGED r_fd_vars

\* mutant: the remainder and the padding are taken from the nominal size
HeapBufferProps_RoundNominal(size, mem_align, features, reqs_size) ==
    LET rem == size % mem_align IN
    IF IMPORTABLE \notin features
    THEN [fatal |-> "external memory not importable", alloc |-> 0]
    ELSE IF rem # 0
    THEN IF DEDICATED_ONLY \in features
         THEN [fatal |-> "conflicting size requirement from dedicated allocation",
               alloc |-> 0]
         ELSE [fatal |-> "", alloc |-> ToU64(size - rem + mem_align)]
    ELSE [fatal |-> "", alloc |-> size]

\* renderer_get_heap_buffer_props: *alloc, or the fatal message
HeapBufferProps(size, mem_align, features, reqs_size) ==
    LET rem == reqs_size % mem_align IN
    IF IMPORTABLE \notin features
    THEN [fatal |-> "external memory not importable", alloc |-> 0]
    ELSE IF rem # 0
    THEN IF DEDICATED_ONLY \in features
         THEN [fatal |-> "conflicting size requirement from dedicated allocation",
               alloc |-> 0]
         ELSE [fatal |-> "", alloc |-> ToU64(reqs_size - rem + mem_align)]
    ELSE [fatal |-> "", alloc |-> size]

\* mem_align of renderer_init_heap_layout
MemAligns == IF r_args.use_udmabuf THEN {PageSize} ELSE HostAligns

\* base_skip of renderer_init_heap_layout
BaseSkip(mem_align) ==
    IF r_args.use_udmabuf THEN 0
    ELSE LET rem == heap_base % mem_align IN
         IF rem # 0 THEN mem_align - rem ELSE 0

\* the last check of renderer_init_heap_layout
HeapTooSmall(usize, osize) ==
    ToU64(usize + ToU64(osize * output_count)) > HeapSize

\* renderer_init_heap_layout; the device's answers are drawn here
RendererInitHeapLayout ==
    /\ r_pc = "init_heap_layout"
    /\ \E mem_align \in MemAligns, uf \in FeatureSets, ur \in ReqSizes(Vec4Size) :
         LET ubo == HeapBufferProps(Vec4Size, mem_align, uf, ur)
             l1 == [heap_layout EXCEPT !.mem_align = mem_align,
                                       !.base_skip = BaseSkip(mem_align),
                                       !.ubo_used_size = Vec4Size,
                                       !.ubo_features = uf,
                                       !.ubo_reqs = ur,
                                       !.ubo_types = device.ubo_types,
                                       !.ubo_size = ubo.alloc]
         IN IF ubo.fatal # ""
            THEN /\ RendererFatal(ubo.fatal)
                 /\ heap_layout' =
                        IF IMPORTABLE \in uf THEN l1
                        ELSE [l1 EXCEPT !.ubo_reqs = 0, !.ubo_types = 0]
            ELSE \E of \in FeatureSets, or \in ReqSizes(ImgSize) :
                   LET out == HeapBufferProps(ImgSize, mem_align, of, or)
                       l2 == [l1 EXCEPT !.output_used_size = ImgSize,
                                        !.output_features = of,
                                        !.output_reqs = or,
                                        !.output_types = device.output_types,
                                        !.output_size = out.alloc]
                   IN IF out.fatal # ""
                      THEN /\ RendererFatal(out.fatal)
                           /\ heap_layout' =
                                  IF IMPORTABLE \in of THEN l2
                                  ELSE [l2 EXCEPT !.output_reqs = 0,
                                                  !.output_types = 0]
                      ELSE /\ heap_layout' = l2
                           /\ IF HeapTooSmall(ubo.alloc, out.alloc)
                              THEN RendererFatal("heap size too small")
                              ELSE r_pc' = "send_base_skip" /\ UNCHANGED r_msg
    /\ UNCHANGED <<heap_base, r_ubo, r_outputs, r_output, queue>>
    /\ UNCHANGED vk_vars
    /\ UNCHANGED <<cfg_vars, app_vars, chan_vars, ghost_vars>>
    /\ UNCHANGED r_fd_vars

\* mutant: the uniform slot size is sent first, base_skip second
LayoutValue_Swapped(pc) ==
    CASE pc = "send_base_skip" -> heap_layout.ubo_size
      [] pc = "send_ubo_size" -> heap_layout.base_skip
      [] pc = "send_output_size" -> heap_layout.output_size

\* the argument of each renderer_send of the handshake, by position
LayoutValue(pc) ==
    CASE pc = "send_base_skip" -> heap_layout.base_skip
      [] pc = "send_ubo_size" -> heap_layout.ubo_size
      [] pc = "send_output_size" -> heap_layout.output_size

RendererSendNext(pc) ==
    CASE pc = "send_base_skip" -> "send_ubo_size"
      [] pc = "send_ubo_size" -> "send_output_size"
      [] pc = "send_output_size" -> "init_heap_buffers"

\* renderer: "send the heap layout", three renderer_send calls
RendererSendLayout ==
    /\ r_pc \in {"send_base_skip", "send_ubo_size", "send_output_size"}
    /\ \/ /\ RendererCanWrite
          /\ PipeWrite(RendererOut, ToU32(LayoutValue(r_pc)))
          /\ LogSent(ToU32(LayoutValue(r_pc)))
          /\ r_pc' = RendererSendNext(r_pc)
          /\ UNCHANGED r_msg
       \/ /\ RendererWriteFails
          /\ RendererFatal(WriteFailure(RendererOut))
          /\ UNCHANGED <<chan_vars, sent_r2c>>
    /\ UNCHANGED <<heap_base, heap_layout, r_ubo, r_outputs, r_output, queue>>
    /\ UNCHANGED vk_vars
    /\ UNCHANGED <<cfg_vars, app_vars, pending, last_req, req_no, last_done, app_ops>>
    /\ UNCHANGED r_fd_vars

\* the {offset, size} renderer_init_heap_buffers passes for the ubo
RendererUbo ==
    [offset |-> heap_layout.base_skip, size |-> heap_layout.ubo_size]

\* mutant: offset is not advanced after an output
RendererOutputs_NoAdvance ==
    [i \in 1..output_count |->
        [offset |-> ToU64(heap_layout.base_skip + heap_layout.ubo_size),
         size |-> heap_layout.output_size]]

\* ... and for each output; size_t offset wraps like VkDeviceSize
RendererOutputs ==
    [i \in 1..output_count |->
        [offset |-> ToU64(heap_layout.base_skip + heap_layout.ubo_size
                          + (i - 1) * heap_layout.output_size),
         size |-> heap_layout.output_size]]

\* mutant: the type is taken from the buffer's own memoryTypeBits
MemTypes_BufferOnly(reqs_types) == reqs_types

\* mem_types of renderer_alloc_heap_buffer: the buffer's memoryTypeBits
\* and-ed with those of the import
MemTypes(reqs_types) == BitAnd(reqs_types, device.import_types)

\* renderer_alloc_heap_buffer(renderer, buf, offset, size, props, info,
\* reqs): the fatal message, or the VkMemoryAllocateInfo given to
\* vkAllocateMemory together with what is imported (ptr: pHostPointer as an
\* address in the renderer's mapping, -1 for a dma-buf)
AllocHeapBuffer(offset, size, features, reqs_types) ==
    IF MemTypes(reqs_types) = 0
    THEN [fatal |-> "no usable memory type", alloc |-> <<>>]
    ELSE [fatal |-> "",
          alloc |-> <<[offset |-> offset,
                       size |-> size,
                       mem_type |-> Ffs(MemTypes(reqs_types)) - 1,
                       dedicated |-> DEDICATED_ONLY \in features,
                       ptr |-> IF r_args.use_udmabuf THEN -1
                               ELSE heap_base + offset]>>]

\* the calls of renderer_alloc_heap_buffer that fail whatever the layout
ImportFailures ==
    {"failed to import memory"}
        \cup (IF r_args.use_udmabuf THEN {"failed to create udmabuf"} ELSE {})

\* renderer_init_heap_buffers: one renderer_alloc_heap_buffer per step,
\* first for the ubo, then for outputs[0], outputs[1], ...; as many regions
\* are done as there are allocations
RendererInitHeapBuffers ==
    /\ r_pc = "init_heap_buffers"
    /\ \E done \in {Len(allocs)} :
       \E buf \in {IF done = 0 THEN RendererUbo ELSE RendererOutputs[done]} :
       \E res \in {IF done = 0
                   THEN AllocHeapBuffer(buf.offset, buf.size,
                                        heap_layout.ubo_features,
                                        heap_layout.ubo_types)
                   ELSE AllocHeapBuffer(buf.offset, buf.size,
                                        heap_layout.output_features,
                                        heap_layout.output_types)} :
          \/ /\ res.fatal = ""
             /\ allocs' = allocs \o res.alloc
             /\ IF done = 0
                THEN r_ubo' = buf /\ UNCHANGED r_outputs
                ELSE r_outputs' = Append(r_outputs, buf) /\ UNCHANGED r_ubo
             /\ r_pc' = IF done = output_count THEN "init_vk_objects" ELSE r_pc
             /\ UNCHANGED r_msg
          \/ /\ res.fatal # ""
             /\ RendererFatal(res.fatal)
             /\ UNCHANGED <<r_ubo, r_outputs, allocs>>
          \/ /\ \E m \in ImportFailures : RendererFatal(m)
             /\ UNCHANGED <<r_ubo, r_outputs, allocs>>
    /\ UNCHANGED <<heap_base, heap_layout, r_output, queue, device, dev_write, prev_runs>>
    /\ UNCHANGED <<cfg_vars, app_vars, chan_vars, ghost_vars>>
    /\ UNCHANGED r_fd_vars

\* renderer_init_vk_vertex_buffer ... renderer_init_vk_cmd
RendererInitVkObjects ==
    /\ r_pc = "init_vk_objects"
    /\ \/ r_pc' = "recv" /\ UNCHANGED r_msg
       \/ RendererFatal("failed to allocate command buffer")
    /\ UNCHANGED <<heap_base, heap_layout, r_ubo, r_outputs, r_output, queue>>
    /\ UNCHANGED vk_vars
    /\ UNCHANGED <<cfg_vars, app_vars, chan_vars, ghost_vars>>
    /\ UNCHANGED r_fd_vars

\* mutant: the number of bytes read is not tested; at the end of the stream
\* the value keeps what it held and the renderer goes on
RendererRecv_NoCheck ==
    /\ r_pc = "recv"
    /\ \/ /\ RendererCanRead
          /\ r_output' = Head(PipeData(RendererIn))
          /\ PipeRead(RendererIn)
       \/ /\ RendererReadEof
          /\ UNCHANGED <<r_output, chan_vars>>
    /\ r_pc' = "render"
    /\ UNCHANGED r_msg
    /\ UNCHANGED <<heap_base, heap_layout, r_ubo, r_outputs, queue>>
    /\ UNCHANGED vk_vars
    /\ UNCHANGED <<cfg_vars, app_vars, ghost_vars>>
    /\ UNCHANGED r_fd_vars

\* renderer_mainloop: output = renderer_recv(renderer)
RendererRecv ==
    /\ r_pc = "recv"
    /\ \/ /\ RendererCanRead
          /\ r_output' = Head(PipeData(RendererIn))
          /\ PipeRead(RendererIn)
          /\ r_pc' = "render"
          /\ UNCHANGED r_msg
       \/ /\ RendererReadEof
          /\ RendererFatal("failed to receive a value")
          /\ UNCHANGED <<r_output, chan_vars>>
    /\ UNCHANGED <<heap_base, heap_layout, r_ubo, r_outputs, queue>>
    /\ UNCHANGED vk_vars
    /\ UNCHANGED <<cfg_vars, app_vars, ghost_vars>>
    /\ UNCHANGED r_fd_vars

\* renderer_render, first half: vkQueueSubmit of cmd.bufs[output].
\* cmd.bufs has output_count elements: any other index reads past the
\* array, after which the process may crash or carry on
RendererRender ==
    /\ r_pc = "render"
    /\ \/ /\ queue' = Append(queue, r_output)
          /\ r_pc' = "wait_idle"
          /\ UNCHANGED r_msg
       \/ /\ r_output \in 0..(output_count - 1)
          /\ RendererFatal("failed to submit command buffer")
          /\ UNCHANGED queue
       \/ /\ r_output \notin 0..(output_count - 1)
          /\ RendererFatal("SIGSEGV")
          /\ UNCHANGED queue
    /\ UNCHANGED <<heap_base, heap_layout, r_ubo, r_outputs, r_output>>
    /\ UNCHANGED vk_vars
    /\ UNCHANGED <<cfg_vars, app_vars, chan_vars, ghost_vars>>
    /\ UNCHANGED r_fd_vars

\* renderer_init_vk_cmd builds cmd.bufs[i] to copy the image into
\* outputs[i].  cmd.bufs has output_count elements: what is read past its end
\* is no command buffer of the renderer, and its execution may copy into a
\* buffer it was not built for or into none
CmdBufTargets(i) ==
    IF i \in 0..(output_count - 1)
    THEN {r_outputs[i + 1]}
    ELSE {r_ubo, NoTarget}

\* the device executes the oldest submitted command buffer to completion
DeviceExecute ==
    /\ queue # <<>>
    /\ queue' = Tail(queue)
    /\ last_done' = Head(queue)
    /\ dev_write' \in CmdBufTargets(Head(queue))
    /\ UNCHANGED <<r_pc, r_msg, heap_base, heap_layout, r_ubo, r_outputs, r_output>>
    /\ UNCHANGED <<device, allocs, prev_runs>>
    /\ UNCHANGED <<cfg_vars, app_vars, chan_vars, sent_r2c, pending, last_req, req_no, app_ops>>
    /\ UNCHANGED r_fd_vars

\* mutant: vkQueueWaitIdle returns while the queue still holds work
RendererWaitIdle_NoWait ==
    /\ r_pc = "wait_idle"
    /\ r_pc' = "send_reply"
    /\ UNCHANGED <<r_msg, heap_base, heap_layout, r_ubo, r_outputs, r_output, queue>>
    /\ UNCHANGED vk_vars
    /\ UNCHANGED <<cfg_vars, app_vars, chan_vars, ghost_vars>>
    /\ UNCHANGED r_fd_vars

\* mutant: after the wait the renderer goes back to reading, without a reply
RendererWaitIdle_NoReply ==
    /\ r_pc = "wait_idle"
    /\ \/ /\ queue = <<>>
          /\ r_pc' = "recv"
          /\ UNCHANGED r_msg
       \/ RendererFatal("failed to wait queue")
    /\ UNCHANGED <<heap_base, heap_layout, r_ubo, r_outputs, r_output, queue>>
    /\ UNCHANGED vk_vars
    /\ UNCHANGED <<cfg_vars, app_vars, chan_vars, ghost_vars>>
    /\ UNCHANGED r_fd_vars

\* renderer_render, second half: vkQueueWaitIdle returns once the queue is
\* empty, or fails
RendererWaitIdle ==
    /\ r_pc = "wait_idle"
    /\ \/ /\ queue = <<>>
          /\ r_pc' = "send_reply"
          /\ UNCHANGED r_msg
       \/ RendererFatal("failed to wait queue")
    /\ UNCHANGED <<heap_base, heap_layout, r_ubo, r_outputs, r_output, queue>>
    /\ UNCHANGED vk_vars
    /\ UNCHANGED <<cfg_vars, app_vars, chan_vars, ghost_vars>>
    /\ UNCHANGED r_fd_vars

\* mutant: the reply is the number of outputs, not the index received
ReplyValue_Count == output_count

\* the value renderer_mainloop hands to renderer_send
ReplyValue == r_output

\* renderer_mainloop: renderer_send(renderer, output)
RendererSendReply ==
    /\ r_pc = "send_reply"
    /\ \/ /\ RendererCanWrite
          /\ PipeWrite(RendererOut, ToU32(ReplyValue))
          /\ LogSent(ToU32(ReplyValue))
          /\ r_pc' = "recv"
          /\ UNCHANGED r_msg
       \/ /\ RendererWriteFails
          /\ RendererFatal(WriteFailure(RendererOut))
          /\ UNCHANGED <<chan_vars, sent_r2c>>
    /\ UNCHANGED <<heap_base, heap_layout, r_ubo, r_outputs, r_output, queue>>
    /\ UNCHANGED vk_vars
    /\ UNCHANGED <<cfg_vars, app_vars, pending, last_req, req_no, last_done, app_ops>>
    /\ UNCHANGED r_fd_vars

RendererNext ==
    \/ ChildExec
    \/ RendererMain
    \/ RendererInitHeap
    \/ RendererInitVk
    \/ RendererInitHeapLayout
    \/ RendererSendLayout
    \/ RendererInitHeapBuffers
    \/ RendererInitVkObjects
    \/ RendererRecv
    \/ RendererRender
    \/ DeviceExecute
    \/ RendererWaitIdle
    \/ RendererSendReply

Next == AppNext \/ RendererNext

Spec == Init /\ [][Next]_vars

\* The controller, the renderer and the device are each scheduled again and
\* again: a process that can take a step eventually takes one.
SpecLive ==
    /\ Init
    /\ [][Next]_vars
    /\ WF_vars(AppNext)
    /\ WF_vars(RendererNext)
    /\ WF_vars(DeviceExecute)

(* ----------------------- the negotiation, twice ---------------------- *)
(* Under SpecNegotiate the program is started, runs up to the end of       *)
(* renderer_init_heap_layout, and is started a second time on the same     *)
(* device with the same command line.                                      *)

\* what the device answered to renderer_init_heap_layout
LayoutAnswers ==
    [mem_align |-> heap_layout.mem_align,
     ubo_features |-> heap_layout.ubo_features,
     ubo_reqs |-> heap_layout.ubo_reqs,
     ubo_types |-> heap_layout.ubo_types,
     output_features |-> heap_layout.output_features,
     output_reqs |-> heap_layout.output_reqs,
     output_types |-> heap_layout.output_types]

\* mutant: the address of the mapping is not counted among the inputs
LayoutInputs_NoBase ==
    [use_udmabuf |-> r_args.use_udmabuf,
     answers |-> LayoutAnswers,
     heap_base |-> 0,
     width |-> Width, height |-> Height, output_count |-> output_count]

\* all that renderer_init_heap_layout reads
LayoutInputs ==
    [use_udmabuf |-> r_args.use_udmabuf,
     answers |-> LayoutAnswers,
     heap_base |-> heap_base,
     width |-> Width, height |-> Height, output_count |-> output_count]

\* renderer_init_heap_layout has returned, or has ended in renderer_fatal
LayoutDone ==
    /\ heap_layout.mem_align # 0
    /\ r_pc \in {"send_base_skip", "aborted"}

\* what it leaves: the three values to send, or a failure
LayoutOutcome ==
    IF r_pc = "aborted"
    THEN [failed |-> TRUE, base_skip |-> 0, ubo_size |-> 0, output_size |-> 0]
    ELSE [failed |-> FALSE,
          base_skip |-> heap_layout.base_skip,
          ubo_size |-> heap_layout.ubo_size,
          output_size |-> heap_layout.output_size]

\* the second start: a new renderer process, its struct renderer zeroed, has
\* mapped the heap at some address and created its device
RendererRunAgain ==
    /\ prev_runs = <<>>
    /\ LayoutDone
    /\ prev_runs' = <<[inputs |-> LayoutInputs, outcome |-> LayoutOutcome]>>
    /\ r_pc' = "init_heap_layout"
    /\ r_msg' = ""
    /\ heap_layout' = ZeroLayout
    /\ heap_base' \in HeapBases
    /\ UNCHANGED <<r_ubo, r_outputs, r_output, queue>>
    /\ UNCHANGED <<device, allocs, dev_write>>
    /\ UNCHANGED <<cfg_vars, app_vars, chan_vars, ghost_vars>>
    /\ UNCHANGED r_fd_vars

\* renderer_init_heap_layout; in the second run the device answers what it
\* answered in the first
RendererNegotiate ==
    /\ RendererInitHeapLayout
    /\ prev_runs # <<>> => LayoutAnswers' = prev_runs[1].inputs.answers

NextNegotiate ==
    \/ AppMain
    \/ AppInitHeap
    \/ AppInitRenderer
    \/ ChildExec
    \/ RendererMain
    \/ RendererInitHeap
    \/ RendererInitVk
    \/ RendererNegotiate
    \/ RendererRunAgain

SpecNegotiate == Init /\ [][NextNegotiate]_vars

(* --------------------- controller with any peer ---------------------- *)
(* The child is whatever program execv(argv0) starts.  Under SpecPeer the  *)
(* other ends of the two pipes are held by a process that writes and reads *)
(* as it likes; the controller's actions are the ones above.               *)

\* what the peer writes: indices, sizes at the edge of the controller's
\* checks, and the largest channel word
PeerValues ==
    (0..(MaxOutputCount - 1)) \cup {Vec4Size - 1, Vec4Size, ChanMod - 1}

\* the controller reads one word at a time and sees only the sequence of
\* words, so the peer writes into an empty pipe
PeerWrite ==
    /\ r_pc = "child"
    /\ AppAlive
    /\ r2c = <<>>
    /\ \E v \in PeerValues : r2c' = Append(r2c, v)
    /\ UNCHANGED <<cfg_vars, app_vars, r_vars, c2r, ghost_vars>>

PeerRead ==
    /\ r_pc = "child"
    /\ c2r # <<>>
    /\ c2r' = Tail(c2r)
    /\ UNCHANGED <<cfg_vars, app_vars, r_vars, r2c, ghost_vars>>

PeerExit ==
    /\ r_pc = "child"
    /\ RendererFatal("exit")
    /\ UNCHANGED <<heap_base, heap_layout, r_ubo, r_outputs, r_output, queue>>
    /\ UNCHANGED vk_vars
    /\ UNCHANGED <<cfg_vars, app_vars, chan_vars, ghost_vars>>
    /\ UNCHANGED r_fd_vars

NextPeer == AppNext \/ PeerWrite \/ PeerRead \/ PeerExit

SpecPeer == Init /\ [][NextPeer]_vars

(* ------------------------------- claims ------------------------------- *)

AppInFrame == app_pc \in {"mainloop", "recv_reply", "present"}

\* C1: strict alternation.  At most one frame request is in flight: the
\* controller never writes a request while an earlier one is unanswered, so
\* the requests written and not yet answered number at most one, the request
\* pipe never holds two, and at the top of the loop nothing is outstanding.
C1_StrictAlternation ==
    /\ pending \in {0, 1}
    /\ Len(c2r) <= 1
    /\ Len(c2r) + (IF r_pc \in {"render", "wait_idle", "send_reply"} THEN 1 ELSE 0)
         + (IF AppInFrame THEN Len(r2c) ELSE 0) <= 1
    /\ app_pc \in {"mainloop", "present"} => pending = 0 /\ c2r = <<>>

\* a request is in flight on the way down from the top index
C1_Witness ==
    /\ pending = 1
    /\ r_pc = "render"
    /\ output_count = MaxOutputCount
    /\ output_inc = -1
    /\ last_req = 0

\* C2: round trip.  The value the renderer is about to write, and every
\* value waiting in the reply pipe, is the index of the request the
\* controller sent last, and the value the controller read is that index.
C2_RoundTrip ==
    /\ r_pc = "send_reply" => ToU32(ReplyValue) = last_req
    /\ AppInFrame => \A k \in 1..Len(r2c) : r2c[k] = last_req
    /\ app_pc = "present" => app_val = output /\ output = last_req
    /\ app_msg # "unexpected renderer output"

\* the reply for a non-zero index has come back
C2_Witness ==
    /\ app_pc = "present"
    /\ app_val = output
    /\ output = output_count - 1
    /\ output > 0
    /\ output_inc = -1

\* C3: when the reply read differs from the index just sent, the controller
\* aborts in that step, and an aborted controller presents nothing and
\* sends nothing more.
C3_MismatchAborts ==
    [][/\ (app_pc = "recv_reply" /\ r2c # <<>> /\ r2c' = Tail(r2c)
             /\ Head(r2c) # ToU32(output))
          => (app_pc' = "aborted" /\ app_msg' = "unexpected renderer output")
       /\ app_pc = "aborted"
          => (app_pc' = "aborted" /\ pending' = pending /\ last_req' = last_req
              /\ Len(c2r') <= Len(c2r) /\ output' = output)]_vars

\* the controller has read a reply that is not its request, after a good one
C3_Witness ==
    /\ app_msg = "unexpected renderer output"
    /\ app_val # ToU32(output)
    /\ output > 0

\* the renderer has passed renderer_init_heap_layout
RendererNegotiated ==
    r_pc \in {"send_base_skip", "send_ubo_size", "send_output_size",
              "init_heap_buffers", "init_vk_objects", "recv", "render",
              "wait_idle", "send_reply"}

\* the renderer has passed renderer_init_heap_buffers
RendererImported ==
    r_pc \in {"init_vk_objects", "recv", "render", "wait_idle", "send_reply"}

\* C4: every request index the controller sends, and every index the
\* renderer uses to pick a command buffer, lies in 0..output_count-1, for
\* every output_count >= 1.
C4_IndexInRange ==
    /\ last_req # -1 => last_req \in 0..(output_count - 1)
    /\ \A k \in 1..Len(c2r) : c2r[k] \in 0..(output_count - 1)
    /\ r_pc \in {"render", "wait_idle", "send_reply"} =>
           r_output \in 0..(output_count - 1)

\* the three layout values as a channel word carries them
LayoutWords ==
    <<ToU32(heap_layout.base_skip), ToU32(heap_layout.ubo_size),
      ToU32(heap_layout.output_size)>>

\* C5: handshake ordering.  The first three words written to the
\* renderer-to-controller pipe are base_skip, the uniform slot size and the
\* output slot size (as channel words), in that order and once each; the
\* renderer has written all three before it writes a reply, and the
\* controller has read all three before it sends its first request.
C5_HandshakeOrder ==
    /\ \A k \in 1..Len(sent_r2c) : sent_r2c[k] = LayoutWords[k]
    /\ r_pc = "send_base_skip" => Len(sent_r2c) = 0
    /\ r_pc = "send_ubo_size" => Len(sent_r2c) = 1
    /\ r_pc = "send_output_size" => Len(sent_r2c) = 2
    /\ r_pc \in {"init_heap_buffers", "init_vk_objects", "recv", "render",
                 "wait_idle", "send_reply"} => Len(sent_r2c) = 3
    /\ Len(app_layout) <= Len(sent_r2c)
    /\ \A k \in 1..Len(app_layout) : app_layout[k] = sent_r2c[k]
    /\ (last_req # -1 \/ AppInFrame) => Len(app_layout) = 3

\* the controller has sent a request after reading three different values
C5_Witness ==
    /\ last_req # -1
    /\ app_layout = LayoutWords
    /\ heap_layout.base_skip > 0
    /\ heap_layout.ubo_size # heap_layout.output_size
    /\ heap_layout.base_skip # heap_layout.ubo_size

\* C6: layout agreement.  Once the controller has derived its pointers and
\* the renderer has imported its regions, the uniform region and every
\* output region lie at the same heap offset on both sides.
C6_LayoutAgreement ==
    (AppInFrame /\ RendererImported) =>
        /\ mems.ubo = r_ubo.offset
        /\ \A i \in 1..output_count : mems.outputs[i] = r_outputs[i].offset

\* C7: a renderer that has passed layout negotiation has a layout that fits
\* the heap, base_skip included, and no region it imports ends past the heap.
C7_LayoutFitsHeap ==
    /\ RendererNegotiated =>
           heap_layout.base_skip + heap_layout.ubo_size
               + output_count * heap_layout.output_size <= HeapSize
    /\ RendererImported =>
           /\ r_ubo.offset + r_ubo.size <= HeapSize
           /\ \A i \in 1..output_count :
                  r_outputs[i].offset + r_outputs[i].size <= HeapSize

\* what claim C8 asks of a received layout
LayoutAcceptable(skip, usize, osize) ==
    /\ usize >= Vec4Size
    /\ osize >= Width * Height * PixelSize
    /\ skip + usize + output_count * osize <= HeapSize

\* C8: the controller sends a frame request only after receiving a layout
\* with uniform slot >= 16, output slot >= width*height*4 and
\* heap_skip + uniform slot + output_count * output slot <= heap size;
\* with any other layout it aborts before the first request.
C8_ControllerChecksLayout ==
    /\ (last_req # -1 \/ AppInFrame) =>
           /\ Len(app_layout) = 3
           /\ LayoutAcceptable(heap_skip, ubo_size, output_size)
    /\ (/\ Len(app_layout) = 3
        /\ app_pc # "init_memories"
        /\ ~LayoutAcceptable(heap_skip, ubo_size, output_size)) =>
           /\ app_pc = "aborted"
           /\ last_req = -1
           /\ c2r = <<>>

\* a layout that fits the heap only without heap_skip has been refused
C8_Witness ==
    /\ app_msg = "heap size too small"
    /\ Len(app_layout) = 3
    /\ ubo_size + output_count * output_size <= HeapSize
    /\ heap_skip + ubo_size + output_count * output_size > HeapSize
    /\ last_req = -1

SlotAligned(slot, nominal, features) ==
    \/ slot % heap_layout.mem_align = 0
    \/ DEDICATED_ONLY \in features /\ slot = nominal

\* C9: after a successful negotiation base_skip < alignment, and each slot
\* size is a multiple of the alignment or, when the device demands a
\* dedicated allocation, exactly the nominal size.
C9_LayoutAligned ==
    RendererNegotiated =>
        /\ heap_layout.base_skip < heap_layout.mem_align
        /\ SlotAligned(heap_layout.ubo_size, Vec4Size, heap_layout.ubo_features)
        /\ SlotAligned(heap_layout.output_size, ImgSize,
                       heap_layout.output_features)

\* aligned_size(nominal, align) of the specification
AlignedSize(nominal, align) ==
    IF nominal % align # 0 THEN nominal + (align - (nominal % align))
    ELSE nominal

NextMultiple(n, align) == ((n + align - 1) \div align) * align

\* the slot size C10 as amended gives a buffer kind
SlotFromRequired(nominal, required, align) ==
    IF required % align # 0
    THEN NextMultiple(required, align) % SizeMod
    ELSE nominal

DedicatedUnaligned(nominal, used, features) ==
    /\ used = nominal
    /\ DEDICATED_ONLY \in features
    /\ nominal % heap_layout.mem_align # 0

\* C11: when a dedicated allocation is required for a buffer kind and that
\* kind's nominal size is not a multiple of the alignment, negotiation fails
\* fatally: the renderer aborts, no layout value is sent and no region is
\* imported.
C11_DedicatedUnalignedFails ==
    (\/ DedicatedUnaligned(Vec4Size, heap_layout.ubo_used_size,
                           heap_layout.ubo_features)
     \/ DedicatedUnaligned(ImgSize, heap_layout.output_used_size,
                           heap_layout.output_features)) =>
        /\ r_pc = "aborted"
        /\ sent_r2c = <<>>
        /\ r_outputs = <<>>

\* the renderer has read a request and its workload is not yet finished
DeviceBusy == r_pc = "render" \/ queue # <<>>

\* C12: single writer per region.  While the device workload of a request
\* is executing (from the renderer reading the request until the queue has
\* drained), the controller performs no memory operation: it neither writes
\* the uniform region nor reads an output region, and while the renderer
\* lives it is blocked in the read of the reply with nothing to read.
C12_SingleWriter ==
    [][DeviceBusy =>
          /\ app_ops' = app_ops
          /\ RendererAlive => (app_pc = "recv_reply" /\ r2c = <<>>)]_vars

\* a workload is queued on the device after the controller wrote and
\* flushed the uniform region for a non-zero index
C12_Witness ==
    /\ queue # <<>>
    /\ r_pc = "wait_idle"
    /\ app_pc = "recv_reply"
    /\ output > 0
    /\ Len(app_ops) = 4
    /\ app_ops[1].op = "memcpy"

\* positions of the controller's current frame at which it reads an output
\* region: the invalidates of the sweep and the presentation
OutputReads ==
    {k \in 1..Len(app_ops) :
        \/ app_ops[k].op = "put_image"
        \/ app_ops[k].op = "clflush" /\ \E j \in 1..(k - 1) : app_ops[j].op = "send"}

\* C13: ordering per frame.  The renderer writes the reply for index i only
\* after the device queue has drained and the workload for i is the last one
\* finished; a reply in flight is for a finished workload; and the
\* controller reads an output region (invalidate sweep, presentation) only
\* after it has received the reply that equals the request of that frame, and
\* the region read is that of the index requested.
C13_FrameOrdering ==
    /\ r_pc = "send_reply" => (queue = <<>> /\ last_done = r_output)
    /\ (AppInFrame /\ r2c # <<>>) => (queue = <<>> /\ ToU32(last_done) = Head(r2c))
    /\ app_pc = "present" => (queue = <<>> /\ last_done = output)
    /\ \A k \in OutputReads :
           \E j \in 1..(k - 1) :
               /\ app_ops[j].op = "recv"
               /\ app_ops[j - 1].op = "send"
               /\ app_ops[j].at = app_ops[j - 1].at
               /\ app_ops[j].at = ToU32(last_req)
    /\ \A k \in 1..Len(app_ops) :
           (app_ops[k].op = "put_image" /\ last_req \in 0..(output_count - 1)) =>
               app_ops[k].at = mems.outputs[last_req + 1]

\* a frame for a non-zero index has been presented after a sweep
C13_Witness ==
    /\ app_pc = "mainloop"
    /\ last_req > 0
    /\ last_done = last_req
    /\ OutputReads # {}
    /\ Cardinality(OutputReads) > 1
    /\ \E k \in OutputReads : app_ops[k].op = "put_image"

\* the position of the first send after position k of the controller's
\* frame, or one past the end when the request has not been sent
SendAfter(k) ==
    LET S == {s \in (k + 1)..Len(app_ops) : app_ops[s].op = "send"}
    IN IF S = {} THEN Len(app_ops) + 1
       ELSE CHOOSE s \in S : \A s2 \in S : s <= s2

\* C14: under the incoherent assumption every write of the uniform
\* parameters is followed by exactly one fence and exactly one cache-line
\* flush, the flush being of the uniform region, both after the write and
\* before the frame request is sent; and no request is sent without them.
C14_UboWriteFlushed ==
    ~is_coherent =>
        /\ \A k \in 1..Len(app_ops) :
               app_ops[k].op = "memcpy" =>
                   LET between == (k + 1)..(SendAfter(k) - 1) IN
                   /\ app_ops[k].at = mems.ubo
                   /\ Cardinality({m \in between : app_ops[m].op = "mfence"}) = 1
                   /\ Cardinality({m \in between : app_ops[m].op = "clflush"}) = 1
                   /\ \A m \in between :
                          app_ops[m].op = "clflush" => app_ops[m].at = mems.ubo
        /\ \A s \in 1..Len(app_ops) :
               app_ops[s].op = "send" =>
                   \E k \in 1..(s - 1) : app_ops[k].op = "memcpy"
        /\ app_pc \in {"recv_reply", "present"} =>
               \E s \in 1..Len(app_ops) : app_ops[s].op = "send"

\* an incoherent controller has sent the request for a non-zero index
C14_Witness ==
    /\ ~is_coherent
    /\ app_pc = "recv_reply"
    /\ last_req > 0
    /\ mems.ubo > 0
    /\ app_ops[1] = Op("memcpy", mems.ubo)
    /\ app_ops[Len(app_ops)] = Op("send", ToU32(last_req))

\* the cache line an address lies in
LineOf(a) == a \div CacheLine

\* C15: under the incoherent assumption, before the controller reads output
\* region i the sweep has invalidated every cache line that overlaps the
\* bytes read, [outputs[i], outputs[i] + width*height*4), with
\* ceil(width*height*4 / line) invalidates followed by one fence, for every
\* layout the controller accepts.
C15_SweepCoversRead ==
    ~is_coherent =>
        \A k \in 1..Len(app_ops) :
            app_ops[k].op = "put_image" =>
                LET ptr == app_ops[k].at
                    sweep == {m \in OutputReads : app_ops[m].op = "clflush"}
                IN /\ \A line \in LineOf(ptr)..LineOf(ptr + Width * Height * PixelSize - 1) :
                          \E m \in sweep : LineOf(app_ops[m].at) = line
                   /\ Cardinality(sweep) =
                          (Width * Height * PixelSize + CacheLine - 1) \div CacheLine
                   /\ app_ops[k - 1].op = "mfence"
                   /\ \A m \in sweep : m < k - 1

IsCoherencyToken(tok) == tok \in {TokCoherent, TokIncoherent}

\* the assumption the command line asks for: the last coherency token, and
\* coherent when there is none
AssumedCoherent ==
    LET toks == SelectSeq(argv, IsCoherencyToken)
    IN toks = <<>> \/ toks[Len(toks)] = TokCoherent

CacheOps == {k \in 1..Len(app_ops) : app_ops[k].op \in {"mfence", "clflush"}}

\* the argv loop of main has run to its end
AppArgsParsed ==
    app_pc # "main" /\ app_msg \notin {"usage", "invalid renderer args"}

\* C16: the assumption is coherent by default or after the token
\* "coherent", and then no fence, flush or invalidate is issued in any
\* frame; after the token "incoherent" they are issued in every frame: a
\* fence and a flush between the uniform write and the request, and
\* invalidates and a fence between the reply and the presentation.
C16_CoherencySwitch ==
    /\ AppArgsParsed => is_coherent = AssumedCoherent
    /\ is_coherent => CacheOps = {}
    /\ ~is_coherent =>
           /\ \A k \in 1..Len(app_ops) :
                  app_ops[k].op = "memcpy" =>
                      /\ \E m \in (k + 1)..(SendAfter(k) - 1) : app_ops[m].op = "mfence"
                      /\ \E m \in (k + 1)..(SendAfter(k) - 1) : app_ops[m].op = "clflush"
           /\ \A k \in 1..Len(app_ops) :
                  app_ops[k].op = "put_image" =>
                      /\ \E m \in OutputReads : app_ops[m].op = "clflush" /\ m < k
                      /\ \E m \in CacheOps :
                             /\ app_ops[m].op = "mfence"
                             /\ m < k
                             /\ \E j \in 1..(m - 1) : app_ops[j].op = "recv"

\* the token "coherent" was given and a whole frame for a non-zero index
\* has been rendered and presented
C16_Witness ==
    /\ argv = <<TokCoherent>>
    /\ app_pc = "mainloop"
    /\ last_req > 0
    /\ Len(app_ops) = 4
    /\ app_ops[4].op = "put_image"

\* the controller is in app_recv
AppInRecv ==
    app_pc \in {"recv_heap_skip", "recv_ubo_size", "recv_output_size", "recv_reply"}

\* the peer of the controller has exited and left nothing to read
AppReadsFromDead == AppInRecv /\ r_pc = "aborted" /\ r2c = <<>>
\* the peer of the renderer has exited and left nothing to read
RendererReadsFromDead == r_pc = "recv" /\ ~AppAlive /\ c2r = <<>>

\* C17: if one peer has exited, a channel read by the survivor blocks
\* indefinitely: the read never returns and the survivor stays in it.
C17_ReadBlocksForever ==
    [][/\ AppReadsFromDead => app_pc' = app_pc
       /\ RendererReadsFromDead => r_pc' = r_pc]_vars

\* C17 as amended: if one peer has exited and the pipe is empty, the read of
\* the survivor can return, and when it does the survivor aborts with
\* "failed to receive a value"; it does not stay blocked.
C17_ReadFailsAfterPeerExit ==
    [][/\ AppReadsFromDead =>
              /\ ENABLED (AppRecvLayout \/ AppRenderFrameRecv)
              /\ app_pc' # app_pc =>
                     (app_pc' = "aborted" /\ app_msg' = "failed to receive a value")
       /\ RendererReadsFromDead =>
              /\ ENABLED RendererRecv
              /\ r_pc' # r_pc =>
                     (r_pc' = "aborted" /\ r_msg' = "failed to receive a value")]_vars

\* the renderer died while the controller was waiting for a reply, and the
\* controller's read has failed
C17_Witness ==
    /\ app_msg = "failed to receive a value"
    /\ r_pc = "aborted"
    /\ last_req > 0
    /\ pending = 1

\* neither process has ended on a fatal error
NoFatal == AppAlive /\ r_pc # "aborted"

\* C18: no terminal state and no deadlock.  In every fairly scheduled
\* behaviour without a fatal error the handshake completes, every frame
\* request is eventually answered by a reply, and the controller issues a
\* request again and again, forever.
C18_FramesForever ==
    []NoFatal =>
        /\ <>(Len(app_layout) = 3 /\ app_pc = "mainloop")
        /\ [](pending = 1 => <>(pending = 0))
        /\ []<>(pending = 1)
        /\ []<>(pending = 0)

\* the controller has gone up, down and up again and is waiting for a reply
C18_Witness ==
    /\ NoFatal
    /\ channel = 1
    /\ output_count = MaxOutputCount
    /\ output = output_count - 1
    /\ pending = 1
    /\ r_pc = "send_reply"

\* the index at place n of the sequence 0,1,...,N-1,N-1,...,0,1,...,N-1,
\* N-1,...,0,...: after the first 0 it repeats 1,...,N-1,N-1,...,0
PingPong(n) ==
    IF n = 0 THEN 0
    ELSE IF n - 1 < output_count - 1 THEN n
    ELSE (2 * output_count - 2) - (n - 1)

\* C19: the request indices issued are 0,1,...,N-1, then N-1,...,0, then
\* 1,...,N-1, then N-1,...,0, and so on, for N = output_count: the top index
\* twice in a row at each turn, the bottom index once.
C19_PingPongSequence ==
    last_req # -1 => last_req = PingPong(req_no)


(* ------------------------------- C20 --------------------------------- *)

\* the pipe ends a descriptor table holds
PipeEnds(tab) == {tab[fd] : fd \in {f \in DOMAIN tab : tab[f].kind = "pipe"}}

\* a word leaves pipe p in this step
Removed(p) ==
    IF p = 0 THEN Len(r2c') < Len(r2c) ELSE Len(c2r') < Len(c2r)

\* the renderer process has parsed its arguments
RendererParsed == r_pc \notin {"none", "child", "main"} /\ r_args # NoArgs

\* C20: channel directions are never swapped.  After the fork the parent
\* holds exactly the read end of one pipe (app.renderer.in) and the write
\* end of the other (app.renderer.out); the renderer, once it has parsed its
\* arguments, holds exactly the complementary ends, its input being the pipe
\* the controller writes and its output the pipe the controller reads; a
\* word leaves the controller's output pipe only in a step of the renderer
\* and leaves the controller's input pipe only in a step of the controller;
\* and the import-path token in the child's argv, and the setting the
\* renderer parses from it, equal the controller's use_udmabuf.
C20_DirectionsNeverSwapped ==
    /\ [](app_renderer.in # -1 =>
            /\ AppIn # -1 /\ AppOut # -1 /\ AppIn # AppOut
            /\ PipeEnds(app_fds) = {PipeRef(AppIn, "r"), PipeRef(AppOut, "w")})
    /\ [](RendererParsed =>
            /\ RendererIn # -1 /\ RendererIn = AppOut
            /\ RendererOut # -1 /\ RendererOut = AppIn
            /\ PipeEnds(r_fds) = {PipeRef(RendererIn, "r"), PipeRef(RendererOut, "w")}
            /\ r_args.use_udmabuf = use_udmabuf)
    /\ [](child_argv # <<>> =>
            child_argv[2] = (IF use_udmabuf THEN TokUdmabuf ELSE TokMemfd))
    /\ [][/\ (AppOut # -1 /\ Removed(AppOut)) => (r_pc' # r_pc /\ app_pc' = app_pc)
          /\ (AppIn # -1 /\ Removed(AppIn)) => (app_pc' # app_pc /\ r_pc' = r_pc)]_vars

\* the renderer, started with the udmabuf token, has read a request from the
\* pipe the controller writes and is about to answer on the other one
C20_Witness ==
    /\ RendererParsed /\ use_udmabuf /\ r_args.use_udmabuf
    /\ child_argv = <<RendererToken(r_args.ctrl_in, r_args.ctrl_out, r_args.memfd),
                      TokUdmabuf>>
    /\ r_fds[r_args.ctrl_in] = PipeRef(1, "r")
    /\ app_fds[app_renderer.out] = PipeRef(1, "w")
    /\ r_pc = "send_reply" /\ last_req # -1


(* ------------------------------- C21 --------------------------------- *)

\* the memory types a memoryTypeBits word names
TypeSet(bits) == {i \in 0..(MaxMemTypes - 1) : (bits \div Pow2(i)) % 2 = 1}

\* the buffer memoryTypeBits of region k of the import order (1: the ubo,
\* 2..: the outputs)
RegionTypes(k) ==
    IF k = 1 THEN heap_layout.ubo_types ELSE heap_layout.output_types

\* the types both the buffer of region k and the import are compatible with
UsableTypes(k) == TypeSet(RegionTypes(k)) \cap TypeSet(device.import_types)

\* C21: every allocation made for an imported region uses the lowest-indexed
\* memory type that is both in the buffer's compatible set and in the import
\* source's compatible set; when that intersection is empty for the region
\* the renderer is about to import, no step allocates and the renderer only
\* aborts, with "no usable memory type" if it got as far as choosing.
C21_LowestCommonMemoryType ==
    /\ [](\A k \in 1..Len(allocs) :
             /\ allocs[k].mem_type \in UsableTypes(k)
             /\ \A i \in UsableTypes(k) : allocs[k].mem_type <= i)
    /\ [][(r_pc = "init_heap_buffers" /\ UsableTypes(Len(allocs) + 1) = {}) =>
             /\ allocs' = allocs
             /\ r_pc' \in {"init_heap_buffers", "aborted"}]_vars
    /\ [](r_msg = "no usable memory type" =>
             /\ r_pc = "aborted"
             /\ UsableTypes(Len(allocs) + 1) = {}
             /\ Len(allocs) <= output_count)

\* all regions are imported; the uniform buffer got type 1 out of buffer
\* types {0, 1, 2} and import types {1, 2}, the outputs got type 2 out of
\* buffer types {0, 2}
C21_Witness ==
    /\ RendererImported
    /\ Len(allocs) = 1 + output_count
    /\ output_count > 1
    /\ TypeSet(heap_layout.ubo_types) = {0, 1, 2}
    /\ TypeSet(heap_layout.output_types) = {0, 2}
    /\ TypeSet(device.import_types) = {1, 2}
    /\ allocs[1].mem_type = 1
    /\ allocs[Len(allocs)].mem_type = 2


(* ------------------------------- C22 --------------------------------- *)

\* the output slot size, as the renderer negotiated it or as the controller
\* received it, is smaller than width * height * 4
OutputSlotTooSmall ==
    \/ RendererNegotiated /\ heap_layout.output_size < ImgSize
    \/ Len(app_layout) = 3 /\ output_size < ImgSize

RendererRendered ==
    \/ r_pc \in {"render", "wait_idle", "send_reply"}
    \/ queue # <<>>
    \/ last_done # -1

\* C23: when width * height * 4 exceeds half of the maximum request length
\* of the X connection, the controller aborts in app_init_xcb with "image
\* size too big": it has sent no frame request and sends none, and the
\* renderer never renders a frame.
C23_ImageTooBigAborts ==
    (app_xcb.img_size # 0 /\ 2 * app_xcb.img_size > app_xcb.max_len) =>
        /\ app_pc = "aborted"
        /\ app_msg = "image size too big"
        /\ last_req = -1
        /\ c2r = <<>>
        /\ ~RendererRendered

\* the image was refused while the renderer had negotiated a layout and was
\* writing it to the controller
C23_Witness ==
    /\ app_msg = "image size too big"
    /\ app_xcb.img_size = ImgSize
    /\ app_xcb.max_len = 2 * ImgSize - 1
    /\ r_pc = "send_output_size"
    /\ Len(sent_r2c) = 2


(* ------------------------------- C24 --------------------------------- *)

\* a token of the form renderer-<in>-<out>-<heap>, the three being numbers
IsWellFormedRendererToken(tok) ==
    \E in \in 0..MaxFd, out \in 0..MaxFd, heap \in 0..MaxFd :
        tok = RendererToken(in, out, heap)

Recognized(tok) ==
    \/ tok \in {TokUdmabuf, TokMemfd, TokCoherent, TokIncoherent}
    \/ IsWellFormedRendererToken(tok)

\* C24: a command line with a token other than renderer-<in>-<out>-<heap>,
\* udmabuf, memfd, coherent or incoherent, in any position, makes the
\* process print the usage and exit with status 1, and that before a heap
\* is created, a process is spawned or the renderer role is entered.
C24_UnknownTokenUsage ==
    (\E k \in 1..Len(argv) : ~Recognized(argv[k])) =>
        /\ app_pc = "main" \/ (app_pc = "aborted" /\ app_msg = "usage")
        /\ app_memfd = -1
        /\ r_pc = "none"


(* ------------------------------- C25 --------------------------------- *)

\* the controller is at a channel operation that cannot transfer 4 bytes:
\* read() or write() fails, or read() returns 0.  (The peers write whole
\* words with one write() each, so that a read() returns 4 bytes or none.)
AppTransferFails ==
    \/ AppInRecv /\ AppReadEof
    \/ app_pc = "mainloop" /\ AppWriteFails

RendererTransferFails ==
    \/ r_pc = "recv" /\ RendererReadEof
    \/ r_pc \in {"send_base_skip", "send_ubo_size", "send_output_size",
                 "send_reply"} /\ RendererWriteFails

\* the sends, receives and presentations in the controller's log
AppChannelOps(ops) ==
    SelectSeq(ops, LAMBDA o : o.op \in {"send", "recv", "put_image"})

\* C25: a channel read or write that does not transfer 4 bytes ends the
\* process that made it, there and then; that process makes no further
\* channel operation, submits no render and presents nothing.
C25_FailedTransferAborts ==
    [][/\ (AppTransferFails /\ app_vars' # app_vars) =>
              /\ app_pc' = "aborted"
              /\ UNCHANGED chan_vars
              /\ AppChannelOps(app_ops') = AppChannelOps(app_ops)
       /\ (RendererTransferFails /\ <<r_pc, r_msg, r_output>>' # <<r_pc, r_msg, r_output>>) =>
              /\ r_pc' = "aborted"
              /\ UNCHANGED <<chan_vars, queue>>
       /\ ~AppAlive =>
              /\ UNCHANGED <<app_vars, app_ops, pending, last_req, req_no>>
              /\ Len(c2r') <= Len(c2r)
              /\ Len(r2c') >= Len(r2c)
       /\ r_pc = "aborted" =>
              /\ UNCHANGED <<r_pc, r_msg, r_output, allocs, sent_r2c>>
              /\ Len(r2c') <= Len(r2c)
              /\ Len(c2r') >= Len(c2r)
              /\ Len(queue') <= Len(queue)]_vars

\* the controller died in its main loop and the renderer's read of the
\* next request found the end of the stream
C25_Witness ==
    /\ r_pc = "aborted"
    /\ r_msg = "failed to receive a value"
    /\ ~AppAlive
    /\ last_req > 0


(* ------------------------------- C26 --------------------------------- *)

Extent(a) == a.offset..(a.offset + a.size - 1)

\* C27: the renderer makes exactly 1 + output_count imports, each with an
\* allocation of its own: the uniform region at
\* [base_skip, base_skip + ubo_size) and output k at
\* [base_skip + ubo_size + k * output_size, ... + output_size), so that the
\* regions follow one another without a gap and no two of them overlap.
C27_RegionsContiguousDisjoint ==
    /\ Len(allocs) <= 1 + output_count
    /\ RendererImported => Len(allocs) = 1 + output_count
    /\ allocs # <<>> =>
           /\ allocs[1].offset = heap_layout.base_skip
           /\ allocs[1].size = heap_layout.ubo_size
    /\ \A k \in 0..(Len(allocs) - 2) :
           /\ allocs[k + 2].offset =
                  heap_layout.base_skip + heap_layout.ubo_size
                      + k * heap_layout.output_size
           /\ allocs[k + 2].size = heap_layout.output_size
           /\ allocs[k + 2].offset = allocs[k + 1].offset + allocs[k + 1].size
    /\ \A j, k \in 1..Len(allocs) :
           j # k => Extent(allocs[j]) \cap Extent(allocs[k]) = {}

\* the renderer has imported the uniform region and three output regions
C27_Witness ==
    /\ RendererImported
    /\ output_count = 3
    /\ Len(allocs) = 4
    /\ heap_layout.base_skip # 0


(* ------------------------------- C28 --------------------------------- *)

\* the region imported for output i: allocation 1 is the uniform region
OutputRegion(i) == [offset |-> allocs[i + 2].offset, size |-> allocs[i + 2].size]

C29_ImportsAligned ==
    \A k \in 1..Len(allocs) :
        IF r_args.use_udmabuf
        THEN /\ heap_layout.base_skip = 0
             /\ allocs[k].offset % PageSize = 0
             /\ allocs[k].size % PageSize = 0
        ELSE allocs[k].ptr % heap_layout.mem_align = 0


(* ------------------------------- C30 --------------------------------- *)

\* C30: for the uniform buffer and for the output buffer, the slot size that
\* the layout negotiation chose, which is the allocationSize of every import
\* of a region of that kind, is at least the memoryRequirements.size the
\* device reported for a buffer of that kind.
C30_SlotCoversRequiredSize ==
    /\ RendererNegotiated =>
           /\ heap_layout.ubo_size >= heap_layout.ubo_reqs
           /\ heap_layout.output_size >= heap_layout.output_reqs
    /\ \A k \in 1..Len(allocs) :
           allocs[k].size >=
               (IF k = 1 THEN heap_layout.ubo_reqs ELSE heap_layout.output_reqs)


(* ------------------------------- C31 --------------------------------- *)

\* the child has executed the renderer, and both processes live
RendererSpawned == child_argv # <<>> /\ AppAlive /\ RendererAlive

\* the processes whose descriptor table holds the given end of pipe p
Holders(p, end) ==
    (IF Holds(app_fds, p, end) THEN {"controller"} ELSE {})
        \cup (IF Holds(r_fds, p, end) THEN {"renderer"} ELSE {})

\* the heap descriptor number in the renderer's invocation token, as its
\* main scans it
TokenMemfd == ParseArgs(child_argv, DefaultConfig).memfd

\* C31: descriptor handoff.  Once the renderer has been spawned and the
\* parent has returned from app_init_renderer, each of the two pipes has
\* exactly one process holding its read end and exactly one holding its
\* write end, and the renderer holds, under the number written in its
\* invocation token, an open duplicate of the controller's heap descriptor.
C31_DescriptorHandoff ==
    RendererSpawned =>
        /\ app_pc \notin {"main", "init_heap", "init_renderer"}
        /\ \A p \in {0, 1} : \A end \in {"r", "w"} :
               Cardinality(Holders(p, end)) = 1
        /\ TokenMemfd \in DOMAIN r_fds
        /\ r_fds[TokenMemfd] = MemfdRef
        /\ app_fds[app_memfd] = MemfdRef

\* the renderer, started on the udmabuf path, is rendering a frame the
\* controller waits for
C31_Witness ==
    /\ RendererSpawned
    /\ r_pc = "render"
    /\ app_pc = "recv_reply"
    /\ use_udmabuf
    /\ TokenMemfd # app_memfd

====
